---- MODULE Spec2Model ----
(***************************************************************************)
(* A model of src/src/main.rs: a single-table store with a fixed 291-byte  *)
(* row codec, a pager of 100 lazily loaded 4096-byte pages over a backing  *)
(* file, a table that flushes on drop, and the interactive shell.          *)
(*                                                                         *)
(* Representation of byte buffers.  A Vec<u8> (and a block of the file) is *)
(* the record [len, nz]: its length and the function from the offsets of   *)
(* its NON-ZERO bytes to those bytes; every other offset below len holds   *)
(* 0.  Writing a zero byte removes the offset from nz.  The representation *)
(* is exact: Get(buf, i) is byte i of the buffer.                          *)
(*                                                                         *)
(* Representation of the file.  Every seek of the program is to            *)
(* page_num * PAGE_SIZE and every read or write is of at most PAGE_SIZE    *)
(* bytes, so the file is kept as the sequence of its 4096-byte blocks,     *)
(* the last of which may be short; FileByte and FileLen give the flat      *)
(* view.  read(2) and write(2) on a regular file transfer the whole        *)
(* request (up to end of file for a read).                                 *)
(***************************************************************************)
EXTENDS Integers, Sequences, FiniteSets, TLC

VARIABLES
    pc,           \* "open": a Table is live; "closed": it was dropped and the
                  \* process ended; "aborted": the process died in a panic
    nrows,        \* Table.nrows
    pages,        \* Pager.pages: page number -> Vec<u8>
    file_length,  \* Pager.file_length
    file,         \* the backing file, on disk
    inserted,     \* history: the rows of the successful inserts, in order
    output,       \* the rows printed by the last statement
    result,       \* what the last operation returned or reported
    op,           \* the last operation
    sessions,     \* history: db_open calls on this file so far
    sinserts,     \* history: Insert statements of this session
    reads,        \* history: pages whose file bytes were read this session
    located,      \* history: pages a cursor was located on this session
    shell,        \* main's loop: "prompt" before read_line, "read" after it,
                  \* "exited" once main has returned; "off" without a shell
    line,         \* main's line buffer
    trimmed,      \* history: the trimmed command main dispatched last
    eof,          \* standard input is at end of input
    nlines,       \* history: lines read from standard input
    codec         \* the codec exercised alone: row, buffer, offset, result

tableVars == <<pc, nrows, pages, file_length, file, inserted, output, result, op,
               sessions, sinserts, reads, located>>
shellVars == <<shell, line, trimmed, eof, nlines>>
vars == <<pc, nrows, pages, file_length, file, inserted, output, result, op,
          sessions, sinserts, reads, located, shell, line, trimmed, eof, nlines, codec>>

\* ----------------------------------------------------------------- bounds
\* db_open calls explored per file (1 = the fresh session only).
MaxSessions == 2
\* Insert statements explored in each session after the first.
MaxReopenInserts == 1
\* Lines the shell reads before its input ends.
MaxLines == 2

\* -------------------------------------------------------------- constants
ROW_ID_SIZE == 4
ROW_USERNAME_SIZE == 32
ROW_EMAIL_SIZE == 255
ROW_USERNAME_START == ROW_ID_SIZE
ROW_EMAIL_START == ROW_USERNAME_START + ROW_USERNAME_SIZE
TABLE_MAX_PAGES == 100
PAGE_SIZE == 4096
ROW_SIZE == 291
ROWS_PER_PAGE == PAGE_SIZE \div ROW_SIZE
TABLE_MAX_ROWS == ROWS_PER_PAGE * TABLE_MAX_PAGES

Min(a, b) == IF a < b THEN a ELSE b
Max(a, b) == IF a > b THEN a ELSE b

\* ---------------------------------------------------------------- buffers
\* Vec::new(): no bytes.
EmptyVec == [len |-> 0, nz |-> <<>>]
\* n zero bytes.
Zeroed(n) == [len |-> n, nz |-> <<>>]
\* buf[i]
Get(buf, i) == IF i \in DOMAIN buf.nz THEN buf.nz[i] ELSE 0
\* The bytes of the sequence s followed by zero bytes up to n bytes
\* (s.bytes().chain(repeat(0).take(n - s.len()))).
Padded(s, n) ==
    [len |-> n, nz |-> [i \in {j \in 0..(Len(s) - 1) : s[j + 1] # 0} |-> s[i + 1]]]
\* buf after  buf[o + j] = src[j]  for j in 0..k-1; a file block grows to o + k.
\* When the write covers all of buf and takes all of src the result is src
\* itself, given without visiting its bytes.
WriteAt(buf, o, src, k) ==
    IF o = 0 /\ buf.len <= k /\ src.len = k THEN src
    ELSE LET keep == {i \in DOMAIN buf.nz : i < o \/ i >= o + k}
             new  == {o + j : j \in {j \in DOMAIN src.nz : j < k}}
         IN  [len |-> Max(buf.len, o + k),
              nz  |-> [i \in keep \cup new |->
                          IF i \in keep THEN buf.nz[i] ELSE src.nz[i - o]]]
\* buf[o .. o + n) as a sequence of bytes.
Slice(buf, o, n) == [k \in 1..n |-> Get(buf, o + k - 1)]

\* ------------------------------------------------------------------ codec
\* A u32 is kept as its two 16-bit halves, value = hi * 65536 + lo (the
\* model checker TLC's integers are 32-bit signed and cannot hold 2^32 - 1).
U32(hi, lo) == [hi |-> hi, lo |-> lo]
\* u32::to_be_bytes
to_be_bytes(id) ==
    Padded(<<id.hi \div 256, id.hi % 256, id.lo \div 256, id.lo % 256>>, ROW_ID_SIZE)

\* serialize_row as early revisions had it, the text fields written from
\* offset 3 + i instead of 4 + i.
serialize_row_early(row, destination, offset) ==
    LET d1 == WriteAt(destination, offset, to_be_bytes(row.id), ROW_ID_SIZE)
        d2 == WriteAt(d1, offset + 3, Padded(row.username, ROW_USERNAME_SIZE),
                      ROW_USERNAME_SIZE)
    IN  WriteAt(d2, offset + 3 + ROW_USERNAME_SIZE, Padded(row.email, ROW_EMAIL_SIZE),
                ROW_EMAIL_SIZE)

\* serialize_row
serialize_row(row, destination, offset) ==
    LET d1 == WriteAt(destination, offset, to_be_bytes(row.id), ROW_ID_SIZE)
        d2 == WriteAt(d1, offset + 4,
                      Padded(row.username, ROW_USERNAME_SIZE), ROW_USERNAME_SIZE)
    IN  WriteAt(d2, offset + 4 + ROW_USERNAME_SIZE,
                Padded(row.email, ROW_EMAIL_SIZE), ROW_EMAIL_SIZE)

\* The scan of Iterator::position over source[lo..hi) for the first zero
\* byte (an offset outside nzs, the offsets of the non-zero bytes): its
\* index, or -1.  Byte by byte over a short range, by halves over a long
\* one (the left half first), which keeps the evaluation shallow.
RECURSIVE FirstZero(_, _, _)
FirstZero(nzs, lo, hi) ==
    IF lo >= hi THEN -1
    ELSE IF hi - lo <= 8
         THEN (IF lo \notin nzs THEN lo ELSE FirstZero(nzs, lo + 1, hi))
    ELSE LET l == FirstZero(nzs, lo, (lo + hi) \div 2)
         IN  IF l # -1 THEN l ELSE FirstZero(nzs, (lo + hi) \div 2, hi)

\* The scan continued window after window (of doubling width) to the end.
RECURSIVE ScanFrom(_, _, _, _)
ScanFrom(nzs, lo, w, end) ==
    IF lo >= end THEN -1
    ELSE LET z == FirstZero(nzs, lo, Min(lo + w, end))
         IN  IF z # -1 THEN z ELSE ScanFrom(nzs, lo + w, 2 * w, end)

\* source[offset..].iter().position(|&x| x == 0): -1 is None.
position(source, offset) ==
    LET z == ScanFrom(DOMAIN source.nz, offset, 8, source.len)
    IN  IF z = -1 THEN -1 ELSE z - offset

\* deserialize_string without the guard p < length: the slice runs to the
\* first zero byte wherever it is.
deserialize_string_unbounded(source, offset, length) ==
    LET p == position(source, offset)
    IN  IF p # -1 THEN Slice(source, offset, p) ELSE Slice(source, offset, length)

\* deserialize_string
deserialize_string(source, offset, length) ==
    LET p == position(source, offset)
    IN  IF p # -1 /\ p < length THEN Slice(source, offset, p)
        ELSE Slice(source, offset, length)

deserialize_row(source, offset) ==
    [id       |-> U32(Get(source, offset) * 256 + Get(source, offset + 1),
                      Get(source, offset + 2) * 256 + Get(source, offset + 3)),
     username |-> deserialize_string(source, offset + ROW_USERNAME_START,
                                     ROW_USERNAME_SIZE),
     email    |-> deserialize_string(source, offset + ROW_EMAIL_START,
                                     ROW_EMAIL_SIZE)]

\* ------------------------------------------------------------------- file
\* file.seek(SeekFrom::End(0))
FileLen(f) == IF Len(f) = 0 THEN 0 ELSE (Len(f) - 1) * PAGE_SIZE + f[Len(f)].len
\* Byte i of the file (i < FileLen(f)).
FileByte(f, i) == Get(f[i \div PAGE_SIZE + 1], i % PAGE_SIZE)
\* seek(Start(pos)); read(buf): up to buf.len bytes, fewer at end of file.
FileRead(f, pos, buf) ==
    LET b == pos \div PAGE_SIZE
    IN  IF b < Len(f) THEN WriteAt(buf, 0, f[b + 1], Min(f[b + 1].len, buf.len))
        ELSE buf
\* The file grown so that block b exists (empty): the old last block and the
\* blocks of the hole are zero-filled to PAGE_SIZE.
FileExtend(f, b) ==
    (IF Len(f) = 0 THEN <<>> ELSE [f EXCEPT ![Len(f)].len = PAGE_SIZE])
    \o [i \in 1..(b - Len(f)) |-> Zeroed(PAGE_SIZE)] \o <<EmptyVec>>
\* seek(Start(pos)); write(src[0..size]): a write past the end leaves a hole
\* of zero bytes.
FileWrite(f, pos, src, size) ==
    LET b == pos \div PAGE_SIZE
        g == IF b < Len(f) THEN f ELSE FileExtend(f, b)
    IN  [g EXCEPT ![b + 1] = WriteAt(g[b + 1], 0, src, size)]

\* ------------------------------------------------------------------ pager
NoPages == [p \in 0..(TABLE_MAX_PAGES - 1) |-> EmptyVec]

\* ceil(file_length / PAGE_SIZE), lines 247-251.
npages(flen) == flen \div PAGE_SIZE + (IF flen % PAGE_SIZE # 0 THEN 1 ELSE 0)

\* Whether allocate_page(page_num) issues a read of the file.
allocate_reads(pgs, flen, page_num) ==
    pgs[page_num].len = 0 /\ page_num <= npages(flen)

\* allocate_page without the test for a slot that is already present: it
\* zeroes and reads the page again.
allocate_page_again(pgs, flen, f, page_num) ==
    [pgs EXCEPT ![page_num] =
        IF page_num <= npages(flen)
        THEN FileRead(f, page_num * PAGE_SIZE, Zeroed(PAGE_SIZE))
        ELSE Zeroed(PAGE_SIZE)]

\* allocate_page reading the file only below the last page of the file.
allocate_page_short(pgs, flen, f, page_num) ==
    IF pgs[page_num].len = 0
    THEN [pgs EXCEPT ![page_num] =
            IF page_num + 1 < npages(flen)
            THEN FileRead(f, page_num * PAGE_SIZE, Zeroed(PAGE_SIZE))
            ELSE Zeroed(PAGE_SIZE)]
    ELSE pgs

\* The page vector after allocate_page(page_num), page_num < TABLE_MAX_PAGES.
allocate_page(pgs, flen, f, page_num) ==
    IF pgs[page_num].len = 0
    THEN [pgs EXCEPT ![page_num] =
            IF page_num <= npages(flen)
            THEN FileRead(f, page_num * PAGE_SIZE, Zeroed(PAGE_SIZE))
            ELSE Zeroed(PAGE_SIZE)]
    ELSE pgs

\* Pager::flush seeking one page past the page's own offset.
flush_next_page(f, pgs, page_num, size) ==
    FileWrite(f, (page_num + 1) * PAGE_SIZE, pgs[page_num], size)
\* The file after Pager::flush(page_num, size).
flush(f, pgs, page_num, size) == FileWrite(f, page_num * PAGE_SIZE, pgs[page_num], size)
\* Pager::new reading every page of the file at once.
Pager_new_eager(f) ==
    [file_length |-> FileLen(f),
     pages |-> [p \in 0..(TABLE_MAX_PAGES - 1) |->
                   IF p < Len(f) THEN FileRead(f, p * PAGE_SIZE, Zeroed(PAGE_SIZE))
                   ELSE EmptyVec]]
\* Pager::new on the file f: (file_length, pages).
Pager_new(f) == [file_length |-> FileLen(f), pages |-> NoPages]

\* ------------------------------------------------------------------ table
\* db_open: (nrows, pager).
db_open(f) ==
    LET pager == Pager_new(f)
    IN  [nrows |-> pager.file_length \div ROW_SIZE, pager |-> pager]

\* The loop of Drop::drop over the full pages i..n-1.
RECURSIVE FlushFull(_, _, _, _)
FlushFull(f, pgs, i, n) ==
    IF i >= n THEN f
    ELSE FlushFull(IF pgs[i].len > 0 THEN flush(f, pgs, i, PAGE_SIZE) ELSE f,
                   pgs, i + 1, n)

\* Drop for Table without the flush of the last, partial page.
Table_drop_full_pages(nr, pgs, f) ==
    [file  |-> FlushFull(f, pgs, 0, Min(nr \div ROWS_PER_PAGE, TABLE_MAX_PAGES)),
     panic |-> nr \div ROWS_PER_PAGE > TABLE_MAX_PAGES]

\* Drop for Table: the file it leaves, and whether pages[num_full_pages]
\* indexed past the 100 slots (a panic: the process aborts, the flushes
\* already made stay in the file).
Table_drop(nr, pgs, f) ==
    LET num_full_pages      == nr \div ROWS_PER_PAGE
        num_additional_rows == nr % ROWS_PER_PAGE
        f1 == FlushFull(f, pgs, 0, Min(num_full_pages, TABLE_MAX_PAGES))
    IN  IF num_full_pages > TABLE_MAX_PAGES THEN [file |-> f1, panic |-> TRUE]
        ELSE IF num_additional_rows = 0 THEN [file |-> f1, panic |-> FALSE]
        ELSE IF num_full_pages >= TABLE_MAX_PAGES THEN [file |-> f1, panic |-> TRUE]
        ELSE [file  |-> IF pgs[num_full_pages].len > 0
                        THEN flush(f1, pgs, num_full_pages,
                                   num_additional_rows * ROW_SIZE)
                        ELSE f1,
              panic |-> FALSE]

\* ----------------------------------------------------------------- cursor
\* Cursor::from_start without the test for an empty table.
Cursor_from_start_nonempty(nr) == [rowno |-> 0, end_of_table |-> FALSE]
Cursor_from_start(nr) == [rowno |-> 0, end_of_table |-> (nr = 0)]
Cursor_from_end(nr) == [rowno |-> nr, end_of_table |-> TRUE]
Cursor_advance(c, nr) == [rowno |-> c.rowno + 1, end_of_table |-> (c.rowno + 1 = nr)]

\* cursor_value for rows packed across pages: the row's byte position
\* rowno * 291 split by the page size.
cursor_value_packed(cursor) ==
    [page_num |-> (cursor.rowno * ROW_SIZE) \div PAGE_SIZE,
     offset   |-> (cursor.rowno * ROW_SIZE) % PAGE_SIZE]

\* cursor_value: (page number, byte offset); the allocate_page it makes is
\* applied by the caller.
cursor_value(cursor) ==
    [page_num |-> cursor.rowno \div ROWS_PER_PAGE,
     offset   |-> (cursor.rowno % ROWS_PER_PAGE) * ROW_SIZE]

\* --------------------------------------------------------------- executor
\* execute_insert with the capacity test against ROWS_PER_PAGE in place of
\* TABLE_MAX_ROWS.
execute_insert_one_page(row, nr, pgs, flen, f) ==
    IF nr >= ROWS_PER_PAGE
    THEN [result |-> "table is full", nrows |-> nr, pages |-> pgs, reads |-> {},
          located |-> {}]
    ELSE LET at   == cursor_value(Cursor_from_end(nr))
             pgs1 == allocate_page(pgs, flen, f, at.page_num)
         IN  [result |-> "ok", nrows |-> nr + 1,
              pages |-> [pgs1 EXCEPT ![at.page_num] =
                            serialize_row(row, pgs1[at.page_num], at.offset)],
              reads |-> IF allocate_reads(pgs, flen, at.page_num) THEN {at.page_num} ELSE {},
              located |-> {at.page_num}]

\* execute_insert writing the row into a fresh zeroed page in place of the
\* page of the slot.
execute_insert_fresh_page(row, nr, pgs, flen, f) ==
    IF nr >= TABLE_MAX_ROWS
    THEN [result |-> "table is full", nrows |-> nr, pages |-> pgs, reads |-> {},
          located |-> {}]
    ELSE LET at == cursor_value(Cursor_from_end(nr))
         IN  [result |-> "ok", nrows |-> nr + 1,
              pages |-> [pgs EXCEPT ![at.page_num] =
                            serialize_row(row, Zeroed(PAGE_SIZE), at.offset)],
              reads |-> IF allocate_reads(pgs, flen, at.page_num) THEN {at.page_num} ELSE {},
              located |-> {at.page_num}]

\* execute_insert: the table after it and its result.
execute_insert(row, nr, pgs, flen, f) ==
    IF nr >= TABLE_MAX_ROWS
    THEN [result |-> "table is full", nrows |-> nr, pages |-> pgs,
          reads |-> {}, located |-> {}]
    ELSE LET cursor == Cursor_from_end(nr)
             at     == cursor_value(cursor)
             pgs1   == allocate_page(pgs, flen, f, at.page_num)
         IN  [result  |-> "ok",
              nrows   |-> nr + 1,
              pages   |-> [pgs1 EXCEPT ![at.page_num] =
                              serialize_row(row, pgs1[at.page_num], at.offset)],
              reads   |-> IF allocate_reads(pgs, flen, at.page_num)
                          THEN {at.page_num} ELSE {},
              located |-> {at.page_num}]

\* The cursor of execute_select at the head of its loop after k turns: from_start,
\* then k times advance (which reads only rowno of the cursor it advances).
CursorAt(k, nr) ==
    IF k = 0 THEN Cursor_from_start(nr)
    ELSE Cursor_advance([rowno |-> k - 1, end_of_table |-> FALSE], nr)

\* execute_select loading one page ahead of the last row's page.
execute_select_ahead(nr, pgs, flen, f) ==
    LET turns == CHOOSE k \in 0..nr :
                    /\ CursorAt(k, nr).end_of_table
                    /\ \A j \in 0..(k - 1) : ~CursorAt(j, nr).end_of_table
        iters == Min(turns, TABLE_MAX_ROWS)
        last  == IF iters = 0 THEN -1 ELSE cursor_value(CursorAt(iters - 1, nr)).page_num
        pgs1  == [p \in 0..(TABLE_MAX_PAGES - 1) |->
                     IF p <= last + 1 THEN allocate_page(pgs, flen, f, p)[p] ELSE pgs[p]]
    IN  [result  |-> IF turns > iters THEN "panic" ELSE "ok",
         pages   |-> pgs1,
         output  |-> [k \in 1..iters |->
                        LET at == cursor_value(CursorAt(k - 1, nr))
                        IN  deserialize_row(pgs1[at.page_num], at.offset)],
         reads   |-> {p \in 0..last : allocate_reads(pgs, flen, p)},
         located |-> 0..last]

\* execute_select.  The loop runs turn k = 0, 1, ... while the cursor is not
\* at end_of_table; turn k locates row k (allocate_page on its page), prints
\* the row there and advances.  pages[page_num] panics in the turn whose
\* page_num reaches TABLE_MAX_PAGES, which is turn TABLE_MAX_ROWS.  The turns
\* read disjoint rows and allocate_page(p) changes slot p only, so the pages
\* and the output are given per page and per row.
execute_select(nr, pgs, flen, f) ==
    LET turns == CHOOSE k \in 0..nr :
                    /\ CursorAt(k, nr).end_of_table
                    /\ \A j \in 0..(k - 1) : ~CursorAt(j, nr).end_of_table
        iters == Min(turns, TABLE_MAX_ROWS)
        last  == IF iters = 0 THEN -1 ELSE cursor_value(CursorAt(iters - 1, nr)).page_num
        pgs1  == [p \in 0..(TABLE_MAX_PAGES - 1) |->
                     IF p <= last THEN allocate_page(pgs, flen, f, p)[p] ELSE pgs[p]]
    IN  [result  |-> IF turns > iters THEN "panic" ELSE "ok",
         pages   |-> pgs1,
         output  |-> [k \in 1..iters |->
                        LET at == cursor_value(CursorAt(k - 1, nr))
                        IN  deserialize_row(pgs1[at.page_num], at.offset)],
         reads   |-> {p \in 0..last : allocate_reads(pgs, flen, p)},
         located |-> 0..last]

\* --------------------------------------------------------------- workload
Repeat(c, n) == [i \in 1..n |-> c]
\* The row of the k-th Insert statement on a file (k from 0): distinct ids,
\* short text, a row of full-width text fields in the last slot of every
\* tenth page, and a row with a zero byte inside its text fields in the
\* sixth slot of every tenth page.
RowAt(k) ==
    IF k % 140 = 13
    THEN [id |-> U32(65535, 65535 - k), username |-> Repeat(97 + (k % 26), ROW_USERNAME_SIZE),
          email |-> Repeat(65 + (k % 26), ROW_EMAIL_SIZE)]
    ELSE IF k % 140 = 5
    THEN [id |-> U32(k + 1, 0), username |-> <<97 + (k % 26), 0, 98>>,
          email |-> <<97 + (k % 26), 64, 0, 99>>]
    ELSE [id |-> U32(0, k + 1), username |-> <<97 + (k % 26)>>,
          email |-> <<97 + (k % 26), 64, 48 + (k % 10)>>]

\* ---------------------------------------------------------------- actions
\* No shell, no codec exercise.
ShellOff == shell = "off" /\ line = <<>> /\ trimmed = <<>> /\ eof = FALSE /\ nlines = 0
CodecOff == codec = [stage |-> "off"]

\* The state after db_open on a fresh path.
TableInit ==
    /\ pc = "open"
    /\ file = <<>>
    /\ nrows = db_open(<<>>).nrows
    /\ pages = db_open(<<>>).pager.pages
    /\ file_length = db_open(<<>>).pager.file_length
    /\ inserted = <<>>
    /\ output = <<>>
    /\ result = "ok"
    /\ op = "open"
    /\ sessions = 1
    /\ sinserts = 0
    /\ reads = {}
    /\ located = {}

Init == TableInit /\ ShellOff /\ CodecOff

\* execute_statement on an Insert statement carrying row.
Insert(row) ==
    /\ pc = "open"
    /\ sessions = 1 \/ sinserts < MaxReopenInserts
    /\ \E r \in {execute_insert(row, nrows, pages, file_length, file)} :
           /\ nrows' = r.nrows
           /\ pages' = r.pages
           /\ result' = r.result
           /\ reads' = reads \cup r.reads
           /\ located' = located \cup r.located
           /\ inserted' = IF r.result = "ok" THEN Append(inserted, row) ELSE inserted
    /\ op' = "insert"
    /\ output' = <<>>
    /\ sinserts' = IF sinserts < MaxReopenInserts THEN sinserts + 1 ELSE sinserts
    /\ UNCHANGED <<pc, file_length, file, sessions, shellVars, codec>>

\* execute_statement on a Select statement.  A panic unwinds into Drop (the
\* default panic strategy) or aborts at once (panic = "abort").
Select ==
    /\ pc = "open"
    /\ \E r \in {execute_select(nrows, pages, file_length, file)} :
           /\ pages' = r.pages
           /\ result' = r.result
           /\ output' = r.output
           /\ reads' = reads \cup r.reads
           /\ located' = located \cup r.located
           /\ IF r.result = "panic"
              THEN /\ pc' = "aborted"
                   /\ file' \in {file, Table_drop(nrows, r.pages, file).file}
              ELSE UNCHANGED <<pc, file>>
    /\ op' = "select"
    /\ UNCHANGED <<nrows, file_length, inserted, sessions, sinserts, shellVars, codec>>

\* The table goes out of scope: Drop for Table.
Drop ==
    /\ pc = "open"
    /\ \E r \in {Table_drop(nrows, pages, file)} :
           /\ file' = r.file
           /\ pc' = IF r.panic THEN "aborted" ELSE "closed"
           /\ result' = IF r.panic THEN "panic" ELSE "ok"
    /\ op' = "drop"
    /\ output' = <<>>
    /\ UNCHANGED <<nrows, pages, file_length, inserted, sessions, sinserts,
                   reads, located, shellVars, codec>>

\* A later process calls db_open on the same path.
Open ==
    /\ pc \in {"closed", "aborted"}
    /\ sessions < MaxSessions
    /\ \E t \in {db_open(file)} :
           /\ nrows' = t.nrows
           /\ pages' = t.pager.pages
           /\ file_length' = t.pager.file_length
    /\ pc' = "open"
    /\ op' = "open"
    /\ result' = "ok"
    /\ output' = <<>>
    /\ sessions' = sessions + 1
    /\ sinserts' = 0
    /\ reads' = {}
    /\ located' = {}
    /\ UNCHANGED <<file, inserted, shellVars, codec>>

Next ==
    \/ Insert(RowAt(Len(inserted)))
    \/ Select
    \/ Drop
    \/ Open

Spec == Init /\ [][Next]_vars

\* ------------------------------------------------------------------ shell
\* Text is a sequence of bytes (ASCII codes).  The string literals of main,
\* prepare_statement and do_meta_command:
lit_dot    == <<46>>                               \* "."
lit_insert == <<105, 110, 115, 101, 114, 116, 32>> \* "insert "
lit_select == <<115, 101, 108, 101, 99, 116>>      \* "select"
lit_exit   == <<46, 101, 120, 105, 116>>           \* ".exit"
lit_size   == <<46, 115, 105, 122, 101>>           \* ".size"

\* char::is_whitespace on ASCII: tab, LF, VT, FF, CR, space.
is_whitespace(c) == c \in {9, 10, 11, 12, 13, 32}
\* u8::is_ascii_whitespace: as above without VT.
is_ascii_whitespace(c) == c \in {9, 10, 12, 13, 32}

\* str::trim
trim(s) ==
    LET keep == {i \in 1..Len(s) : ~is_whitespace(s[i])}
    IN  IF keep = {} THEN <<>>
        ELSE SubSeq(s, CHOOSE i \in keep : \A j \in keep : i <= j,
                       CHOOSE i \in keep : \A j \in keep : i >= j)

\* str::starts_with
starts_with(s, prefix) ==
    Len(s) >= Len(prefix) /\ SubSeq(s, 1, Len(prefix)) = prefix

\* str::split_ascii_whitespace(..).collect(): the maximal runs of bytes that
\* are not ASCII whitespace, in order.
split_ascii_whitespace(s) ==
    LET starts == {i \in 1..Len(s) : /\ ~is_ascii_whitespace(s[i])
                                     /\ (i = 1 \/ is_ascii_whitespace(s[i - 1]))}
        ends   == {i \in 1..Len(s) : /\ ~is_ascii_whitespace(s[i])
                                     /\ (i = Len(s) \/ is_ascii_whitespace(s[i + 1]))}
        nth(S, n) == CHOOSE i \in S : Cardinality({j \in S : j < i}) = n - 1
    IN  [n \in 1..Cardinality(starts) |-> SubSeq(s, nth(starts, n), nth(ends, n))]

\* The digit loop of u32::from_str_radix(.., 10): checked multiply by ten and
\* add, on the two halves of the u32.
RECURSIVE from_digits(_, _, _)
from_digits(digits, i, n) ==
    IF i > Len(digits) THEN [ok |-> TRUE, n |-> n]
    ELSE IF digits[i] \notin 48..57 THEN [ok |-> FALSE]
    ELSE LET lo == n.lo * 10 + (digits[i] - 48)
             hi == n.hi * 10 + (lo \div 65536)
         IN  IF hi >= 65536 THEN [ok |-> FALSE]
             ELSE from_digits(digits, i + 1, U32(hi, lo % 65536))

\* str::parse::<u32>: empty text and a lone sign are errors, a leading "+" is
\* skipped, "-" is no digit.
parse_u32(src) ==
    IF Len(src) = 0 THEN [ok |-> FALSE]
    ELSE IF Len(src) = 1 /\ src[1] \in {43, 45} THEN [ok |-> FALSE]
    ELSE from_digits(IF src[1] = 43 THEN Tail(src) ELSE src, 1, U32(0, 0))

\* prepare_statement without the test of the lengths of username and email.
prepare_statement_unchecked(command) ==
    IF starts_with(command, lit_insert)
    THEN LET words == split_ascii_whitespace(command)
         IN  IF Len(words) = 4
             THEN LET n == parse_u32(words[2])
                  IN  IF n.ok
                      THEN [some |-> TRUE, kind |-> "Insert",
                            row |-> [id |-> n.n, username |-> words[3], email |-> words[4]]]
                      ELSE [some |-> FALSE]
             ELSE [some |-> FALSE]
    ELSE IF command = lit_select \/ starts_with(command, lit_select \o <<32>>)
    THEN [some |-> TRUE, kind |-> "Select"]
    ELSE [some |-> FALSE]

\* prepare_statement: Some(statement) or None.
prepare_statement(command) ==
    IF starts_with(command, lit_insert)
    THEN LET words == split_ascii_whitespace(command)
         IN  IF Len(words) = 4
             THEN IF Len(words[3]) > ROW_USERNAME_SIZE \/ Len(words[4]) > ROW_EMAIL_SIZE
                  THEN [some |-> FALSE]
                  ELSE LET n == parse_u32(words[2])
                       IN  IF n.ok
                           THEN [some |-> TRUE, kind |-> "Insert",
                                 row |-> [id |-> n.n, username |-> words[3],
                                          email |-> words[4]]]
                           ELSE [some |-> FALSE]
             ELSE [some |-> FALSE]
    ELSE IF command = lit_select \/ starts_with(command, lit_select \o <<32>>)
    THEN [some |-> TRUE, kind |-> "Select"]
    ELSE [some |-> FALSE]

\* do_meta_command: the MetaCommandResult.
do_meta_command(command) ==
    IF command = lit_exit THEN "Exit"
    ELSE IF command = lit_size THEN "Success"
    ELSE "Unrecognized"

\* The lines standard input may hold (without their line feed).
InsertLine(id, username, email) ==
    lit_insert \o id \o <<32>> \o username \o <<32>> \o email
InputLines ==
    LET jdoe == <<106, 100, 111, 101>>
        mail == <<106, 64, 120>>
        one  == <<49>>
    IN  { InsertLine(one, jdoe, mail),                        \* insert 1 jdoe j@x
          lit_select,                                         \* select
          <<32, 9>> \o lit_select \o <<32, 42, 13>>,          \* select *, blanks around
          lit_exit,                                           \* .exit
          lit_size,                                           \* .size
          <<46, 102, 111, 111>>,                              \* .foo
          <<>>,                                               \* an empty line
          InsertLine(one, Repeat(97, ROW_USERNAME_SIZE + 1), mail),
          InsertLine(one, jdoe, Repeat(101, ROW_EMAIL_SIZE + 1)),
          InsertLine(<<52, 50, 57, 52, 57, 54, 55, 50, 57, 53>>,   \* 4294967295
                     Repeat(97, ROW_USERNAME_SIZE), Repeat(101, ROW_EMAIL_SIZE)),
          InsertLine(<<52, 50, 57, 52, 57, 54, 55, 50, 57, 54>>, jdoe, mail), \* 4294967296
          InsertLine(<<57, 57, 57, 57, 57, 57, 57, 57, 57, 57, 57>>, jdoe, mail),
          InsertLine(<<48, 48, 48, 48, 48, 48, 48, 48, 48, 48, 48, 55>>, jdoe, mail),
          InsertLine(<<97, 98, 99>>, jdoe, mail),             \* insert abc ..
          InsertLine(<<49, 50, 120>>, jdoe, mail),            \* insert 12x ..
          InsertLine(<<45, 49>>, jdoe, mail),                 \* insert -1 ..
          InsertLine(<<43, 55>>, jdoe, mail),                 \* insert +7 ..
          InsertLine(<<43>>, jdoe, mail),                     \* insert + ..
          lit_insert \o one \o <<32>> \o jdoe,                \* three words
          InsertLine(one, jdoe, mail) \o <<32, 122>>,         \* five words
          <<105, 110, 115, 101, 114, 116, 9>> \o one \o <<32>> \o jdoe \o <<32>> \o mail }

\* The state when main has opened the table on a fresh db.mysql.
ShellInit ==
    /\ TableInit
    /\ shell = "prompt" /\ line = <<>> /\ trimmed = <<>> /\ eof = FALSE /\ nlines = 0
    /\ CodecOff

\* io::stdin().read_line(&mut line): appends the next line with its line
\* feed, or nothing at end of input.
ReadLine ==
    /\ shell = "prompt"
    /\ \/ /\ ~eof
          /\ nlines < MaxLines
          /\ \E l \in InputLines : line' = line \o l \o <<10>>
          /\ nlines' = nlines + 1
          /\ op' = "read_line"
          /\ UNCHANGED eof
       \/ /\ eof' = TRUE
          /\ op' = "eof"
          /\ UNCHANGED <<line, nlines>>
    /\ shell' = "read"
    /\ UNCHANGED <<pc, nrows, pages, file_length, file, inserted, output, result,
                   sessions, sinserts, reads, located, trimmed, codec>>

\* The loop body of main for a trimmed line that starts with ".": .exit
\* breaks the loop, main returns and the table is dropped.
DispatchMeta ==
    /\ shell = "read"
    /\ starts_with(trim(line), lit_dot)
    /\ trimmed' = trim(line)
    /\ op' = "meta"
    /\ IF do_meta_command(trim(line)) = "Exit"
       THEN /\ output' = <<>>
            /\ \E r \in {Table_drop(nrows, pages, file)} :
                   /\ file' = r.file
                   /\ pc' = IF r.panic THEN "aborted" ELSE "closed"
                   /\ result' = IF r.panic THEN "panic" ELSE "exit"
            /\ shell' = "exited"
            /\ UNCHANGED line
       ELSE /\ result' = IF do_meta_command(trim(line)) = "Success"
                         THEN "ok"
                         ELSE "unrecognized meta-command"
            /\ output' = IF do_meta_command(trim(line)) = "Success"
                         THEN <<[size |-> nrows]>>
                         ELSE <<>>
            /\ shell' = "prompt"
            /\ line' = <<>>
            /\ UNCHANGED <<pc, file>>
    /\ UNCHANGED <<nrows, pages, file_length, inserted, sessions, sinserts, reads,
                   located, eof, nlines, codec>>

\* The loop body of main for any other line: prepare_statement, then
\* execute_statement on what it returned.
DispatchStatement ==
    /\ shell = "read"
    /\ ~starts_with(trim(line), lit_dot)
    /\ trimmed' = trim(line)
    /\ \E st \in {prepare_statement(trim(line))} :
         IF ~st.some
         THEN /\ op' = "parse"
              /\ result' = "could not parse statement"
              /\ output' = <<>>
              /\ shell' = "prompt"
              /\ line' = <<>>
              /\ UNCHANGED <<pc, nrows, pages, file, inserted, reads, located>>
         ELSE IF st.kind = "Insert"
         THEN /\ \E r \in {execute_insert(st.row, nrows, pages, file_length, file)} :
                   /\ nrows' = r.nrows
                   /\ pages' = r.pages
                   /\ result' = r.result
                   /\ reads' = reads \cup r.reads
                   /\ located' = located \cup r.located
                   /\ inserted' = IF r.result = "ok" THEN Append(inserted, st.row)
                                  ELSE inserted
              /\ op' = "insert"
              /\ output' = <<>>
              /\ shell' = "prompt"
              /\ line' = <<>>
              /\ UNCHANGED <<pc, file>>
         ELSE /\ \E r \in {execute_select(nrows, pages, file_length, file)} :
                   /\ pages' = r.pages
                   /\ result' = r.result
                   /\ output' = r.output
                   /\ reads' = reads \cup r.reads
                   /\ located' = located \cup r.located
                   /\ IF r.result = "panic"
                      THEN /\ pc' = "aborted"
                           /\ shell' = "exited"
                           /\ file' \in {file, Table_drop(nrows, r.pages, file).file}
                           /\ UNCHANGED line
                      ELSE /\ shell' = "prompt"
                           /\ line' = <<>>
                           /\ UNCHANGED <<pc, file>>
              /\ op' = "select"
              /\ UNCHANGED <<nrows, inserted>>
    /\ UNCHANGED <<file_length, sessions, sinserts, eof, nlines, codec>>

ShellNext == ReadLine \/ DispatchMeta \/ DispatchStatement

\* The shell on a fresh db.mysql.
SpecShell == ShellInit /\ [][ShellNext]_vars

\* A step of main's loop.  Every step of ShellNext moves shell, and one is
\* possible exactly while shell is "prompt" (read_line returns on a line or
\* on end of input) or "read" (the loop body runs to its end).
ShellStep ==
    /\ shell \in {"prompt", "read"}
    /\ shell' \in {"prompt", "read", "exited"} \ {shell}

\* The shell as a running process: while main has a next step it takes it.
SpecShellFair == ShellInit /\ [][ShellNext]_vars /\ WF_shell(ShellStep)
\* ------------------------------------------------------------ codec alone
\* The rows the codec is exercised on: ids at both ends of u32 and with four
\* distinct bytes; text that is empty, short, one byte under its width,
\* exactly its width, and with a zero byte inside.
CodecIds == {U32(0, 0), U32(1 * 256 + 2, 3 * 256 + 4), U32(65535, 65535)}
CodecUsernames ==
    {<<>>, <<106, 100>>, <<106, 0, 100>>, Repeat(117, ROW_USERNAME_SIZE - 1),
     Repeat(117, ROW_USERNAME_SIZE)}
CodecEmails ==
    {<<>>, <<106, 64, 120>>, <<64, 0>>, Repeat(101, ROW_EMAIL_SIZE - 1),
     Repeat(101, ROW_EMAIL_SIZE)}
\* The page the row is written into: freshly allocated (all zero), or holding
\* older non-zero bytes everywhere, as a page read from an existing file may.
CodecPages ==
    {Zeroed(PAGE_SIZE), [len |-> PAGE_SIZE, nz |-> [i \in 0..(PAGE_SIZE - 1) |-> 120]]}

\* A row, a page and one of the 14 row offsets of a page.
CodecInit ==
    /\ TableInit
    /\ ShellOff
    /\ codec \in [stage : {"input"}, row : [id : CodecIds, username : CodecUsernames,
                                            email : CodecEmails],
                  offset : {k * ROW_SIZE : k \in 0..(ROWS_PER_PAGE - 1)},
                  page : CodecPages]

\* serialize_row(&row, &mut page, offset)
CodecSerialize ==
    /\ codec.stage = "input"
    /\ codec' = [stage |-> "serialized", row |-> codec.row, offset |-> codec.offset,
                 page |-> serialize_row(codec.row, codec.page, codec.offset)]
    /\ UNCHANGED <<tableVars, shellVars>>

\* deserialize_row(&page, offset)
CodecDeserialize ==
    /\ codec.stage = "serialized"
    /\ codec' = [stage |-> "done", row |-> codec.row, offset |-> codec.offset,
                 page |-> codec.page, out |-> deserialize_row(codec.page, codec.offset)]
    /\ UNCHANGED <<tableVars, shellVars>>

CodecNext == CodecSerialize \/ CodecDeserialize

SpecCodec == CodecInit /\ [][CodecNext]_vars

\* ------------------------------------------------------- claims: helpers
\* The 291 bytes serialize_row writes for row.
RowImage(row) == serialize_row(row, Zeroed(ROW_SIZE), 0)
\* The offsets in pos..pos+n-1 at which the file holds a non-zero byte.
FileNZ(f, pos, n) ==
    UNION {{b * PAGE_SIZE + j : j \in {j \in DOMAIN f[b + 1].nz :
                                         /\ b * PAGE_SIZE + j >= pos
                                         /\ b * PAGE_SIZE + j < pos + n}} :
           b \in (pos \div PAGE_SIZE)..Min(Len(f) - 1, (pos + n - 1) \div PAGE_SIZE)}
\* The file's bytes pos..pos+n-1, as a buffer.
FileRange(f, pos, n) ==
    [len |-> n, nz |-> [j \in {i - pos : i \in FileNZ(f, pos, n)} |-> FileByte(f, pos + j)]]
\* The text field a row's text decodes to: its bytes before its first zero
\* byte, all of it if it has none.
UpToZero(text) ==
    LET zeros == {i \in 1..Len(text) : text[i] = 0}
    IN  IF zeros = {} THEN text
        ELSE SubSeq(text, 1, (CHOOSE i \in zeros : \A j \in zeros : i <= j) - 1)

\* The rows a Select prints for the rows inserted: one per row, in order,
\* each as the codec returns it (for text without a zero byte, the row itself).
Emitted(rows) ==
    [i \in 1..Len(rows) |-> [id |-> rows[i].id,
                             username |-> UpToZero(rows[i].username),
                             email |-> UpToZero(rows[i].email)]]
\* The first session of a fresh file has ended by a clean drop.
FirstClosed == sessions = 1 /\ pc = "closed"

\* C1 (as claimed): after n inserts on a fresh path, a drop and a db_open on
\* the same path, nrows = n and a Select prints exactly the n inserted rows
\* (text fields as the codec returns them).
C1_Persistence ==
    /\ (sessions = 2 /\ op = "open") => nrows = Len(inserted)
    /\ (sessions = 2 /\ op = "select" /\ sinserts = 0) => output = Emitted(inserted)

\* C2 (as claimed): after n >= 1 inserts on a fresh path and the drop, the
\* file's length is n * 291.
C2_FileLengthPacked ==
    (FirstClosed /\ Len(inserted) >= 1) => FileLen(file) = Len(inserted) * ROW_SIZE

\* C3 (as claimed): after the drop of the first session the file's bytes
\* r * 291 .. (r + 1) * 291 - 1 are the serialization of row r, for every row.
C3_RowsPacked ==
    FirstClosed =>
        \A r \in 0..(Len(inserted) - 1) :
            /\ (r + 1) * ROW_SIZE <= FileLen(file)
            /\ FileRange(file, r * ROW_SIZE, ROW_SIZE) = RowImage(inserted[r + 1])

\* C4: an Insert at nrows >= 1400 returns "table is full" and leaves nrows and
\* the pages as they are; an Insert at nrows < 1400 succeeds and adds one row;
\* so on a fresh table exactly the first 1400 inserts succeed.
C4_Capacity ==
    /\ [][(op' = "insert" /\ pc = "open") =>
            IF nrows >= TABLE_MAX_ROWS
            THEN result' = "table is full" /\ nrows' = nrows /\ pages' = pages
                 /\ inserted' = inserted
            ELSE result' = "ok" /\ nrows' = nrows + 1
                 /\ Len(inserted') = Len(inserted) + 1]_vars
    /\ [](sessions = 1 => (nrows = Len(inserted) /\ nrows <= TABLE_MAX_ROWS))

\* C4 witness: the 1401st insert on a fresh table has failed.
C4_Witness ==
    /\ sessions = 1 /\ op = "insert" /\ result = "table is full"
    /\ nrows = TABLE_MAX_ROWS /\ Len(inserted) = TABLE_MAX_ROWS

\* C5: in the first session of a fresh file a Select succeeds and prints
\* exactly the rows inserted so far, one per row, in insertion order; a text
\* field is printed as the codec returns it, which is the field itself unless
\* it has a zero byte inside (then it ends there, as in C8).
C5_InsertionOrder ==
    (sessions = 1 /\ op = "select") => (result = "ok" /\ output = Emitted(inserted))

\* C5 witness: a Select has printed 15 rows, from two pages, the 14th with
\* full-width text fields.
C5_Witness ==
    /\ sessions = 1 /\ op = "select" /\ Len(inserted) = 15 /\ Len(output) = 15
    /\ output[14] = inserted[14] /\ Len(output[14].email) = ROW_EMAIL_SIZE
    /\ output[15].id = inserted[15].id

\* C6 (as claimed): nrows <= 1400 in every reachable state.
C6_RowCountBound == nrows <= TABLE_MAX_ROWS

\* C9: opening a table on a non-empty file leaves every page slot absent and
\* reads nothing; a slot is present, and a page's bytes are read, only once a
\* cursor has been located on a row of that page.
C9_PageLaziness ==
    (pc = "open" /\ file_length > 0) =>
        /\ op = "open" => (reads = {} /\ \A p \in DOMAIN pages : pages[p].len = 0)
        /\ reads \subseteq located
        /\ \A p \in DOMAIN pages : pages[p].len > 0 => p \in located

\* C9 witness: on a reopened two-page file an Insert has read page 1 and page
\* 0 is still absent.
C9_Witness ==
    /\ sessions = 2 /\ pc = "open" /\ op = "insert" /\ file_length > PAGE_SIZE
    /\ reads = {1} /\ pages[0].len = 0 /\ pages[1].len = PAGE_SIZE
\* C7 (as claimed): once the shell's input is at end of input, main
\* eventually leaves its loop and the table is dropped.
C7_FlushAtEndOfInput == eof ~> (shell = "exited" /\ pc = "closed")

\* C8: for a row with a username of at most 32 bytes and an email of at most
\* 255 bytes, written by serialize_row at any of the 14 row offsets of a page
\* and read back by deserialize_row, the id is the same and each text field is
\* its bytes up to (excluding) its first zero byte, or all of it if it has
\* none; a 32-byte username and a 255-byte email come back whole.
C8_RoundTrip ==
    codec.stage = "done" =>
        /\ codec.out.id = codec.row.id
        /\ codec.out.username = UpToZero(codec.row.username)
        /\ codec.out.email = UpToZero(codec.row.email)

\* C8 witness: a 32-byte username and a 255-byte email round-tripped at the
\* last row offset of a page that held non-zero bytes.
C8_Witness ==
    /\ codec.stage = "done"
    /\ codec.offset = (ROWS_PER_PAGE - 1) * ROW_SIZE
    /\ Len(codec.row.username) = ROW_USERNAME_SIZE
    /\ Len(codec.row.email) = ROW_EMAIL_SIZE
    /\ Get(codec.page, ROWS_PER_PAGE * ROW_SIZE) # 0
    /\ Len(codec.out.username) = ROW_USERNAME_SIZE
    /\ Len(codec.out.email) = ROW_EMAIL_SIZE

\* The text denotes a number of u32: decimal digits, at least one, after an
\* optional "+", of value at most 4294967295.
DenotesU32(text) ==
    LET digits == IF Len(text) > 0 /\ text[1] = 43 THEN Tail(text) ELSE text
        nonzero == {i \in 1..Len(digits) : digits[i] # 48}
        sig == IF nonzero = {} THEN <<>>
               ELSE SubSeq(digits, CHOOSE i \in nonzero : \A j \in nonzero : i <= j,
                           Len(digits))
        max == <<52, 50, 57, 52, 57, 54, 55, 50, 57, 53>>
    IN  /\ Len(digits) > 0
        /\ \A i \in 1..Len(digits) : digits[i] \in 48..57
        /\ \/ Len(sig) < Len(max)
           \/ /\ Len(sig) = Len(max)
              /\ \/ sig = max
                 \/ \E i \in 1..Len(max) : /\ sig[i] < max[i]
                                           /\ \A j \in 1..(i - 1) : sig[j] = max[j]
\* An insert line of four words whose username or email is too long or whose
\* identifier does not denote a u32.
BadInsert(command) ==
    /\ starts_with(command, lit_insert)
    /\ Len(split_ascii_whitespace(command)) = 4
    /\ \/ Len(split_ascii_whitespace(command)[3]) > ROW_USERNAME_SIZE
       \/ Len(split_ascii_whitespace(command)[4]) > ROW_EMAIL_SIZE
       \/ ~DenotesU32(split_ascii_whitespace(command)[2])

\* C10: prepare_statement returns no statement for an insert line whose
\* username exceeds 32 bytes, whose email exceeds 255 bytes or whose
\* identifier is not a decimal number of u32 (an optional leading "+"
\* counted as numeric); the shell reports it and leaves nrows, the pages and
\* the file as they are; and every row an Insert statement of the shell
\* carried has a username of at most 32 bytes and an email of at most 255.
C10_ParserGuard ==
    /\ [](shell = "read" /\ BadInsert(trim(line)) => ~prepare_statement(trim(line)).some)
    /\ [][shell = "read" /\ BadInsert(trim(line)) =>
            /\ result' = "could not parse statement"
            /\ nrows' = nrows /\ pages' = pages /\ file' = file
            /\ inserted' = inserted]_vars
    /\ [](\A i \in 1..Len(inserted) :
            /\ Len(inserted[i].username) <= ROW_USERNAME_SIZE
            /\ Len(inserted[i].email) <= ROW_EMAIL_SIZE)

\* C10 witness: after a successful insert the shell has rejected an insert
\* line with a 33-byte username, the row count still 1.
C10_Witness ==
    /\ shell = "prompt" /\ op = "parse" /\ BadInsert(trimmed)
    /\ Len(split_ascii_whitespace(trimmed)[3]) = ROW_USERNAME_SIZE + 1
    /\ result = "could not parse statement"
    /\ nrows = 1 /\ Len(inserted) = 1 /\ pages[0].len = PAGE_SIZE
\* ------------------------------------------------ claims on pages and drop
\* Where a file of whole pages keeps row r.
RowPos(r) == (r \div ROWS_PER_PAGE) * PAGE_SIZE + (r % ROWS_PER_PAGE) * ROW_SIZE
\* The row count db_open gave this session, and the rows the session's
\* successful Inserts added: they are the last of inserted, at the row
\* numbers from the opening count on.
OpenedRows == file_length \div ROW_SIZE
SessionRows == nrows - OpenedRows
SessionRow(j) == inserted[Len(inserted) - SessionRows + j]

\* C11: when a session ends by a clean drop, every row an Insert of the
\* session stored at row number r is in the file, at bytes
\* (r div 14) * 4096 + (r mod 14) * 291 and the 290 after it.
C11_DirtyPagesFlushed ==
    pc = "closed" =>
        \A j \in 1..SessionRows :
            /\ RowPos(OpenedRows + j - 1) + ROW_SIZE <= FileLen(file)
            /\ FileRange(file, RowPos(OpenedRows + j - 1), ROW_SIZE) = RowImage(SessionRow(j))

\* C11 witness: a reopened session inserted a row on a page it had not
\* loaded before, left the earlier pages absent, and closed.
C11_Witness ==
    /\ pc = "closed" /\ sessions = 2 /\ SessionRows = 1 /\ OpenedRows >= ROWS_PER_PAGE
    /\ pages[0].len = 0
    /\ FileRange(file, RowPos(OpenedRows), ROW_SIZE) = RowImage(SessionRow(1))
\* The last page that holds a stored row; -1 for an empty table.
LastRowPage == (nrows - 1) \div ROWS_PER_PAGE
\* Slot p is materialized.
Present(p) == pages[p].len > 0

\* C12 (as claimed): in every state of a live table, slot p is materialized
\* if and only if p <= floor((nrows - 1) / 14) or page p was read from a
\* pre-existing file.
C12_MaterializedIff ==
    pc = "open" =>
        \A p \in DOMAIN pages :
            Present(p) <=> (p <= LastRowPage \/ (file_length > 0 /\ p \in reads))

\* C12 (amended): in every state of a live table, slot p is materialized if
\* and only if a cursor was located on page p in this session; a
\* materialized slot has 4096 bytes and p <= floor((nrows - 1) / 14); in the
\* first session on a fresh file the slots materialized are exactly those p.
\* After a reopen the pages of stored rows stay absent until a cursor is
\* located on them.
C12_Materialized ==
    pc = "open" =>
        \A p \in DOMAIN pages :
            /\ Present(p) <=> p \in located
            /\ Present(p) => (pages[p].len = PAGE_SIZE /\ p <= LastRowPage)
            /\ sessions = 1 => (Present(p) <=> p <= LastRowPage)

\* C12 witness: a reopened table of more than 14 rows with page 1
\* materialized by an Insert and page 0, which holds rows, absent.
C12_Witness ==
    /\ pc = "open" /\ sessions = 2 /\ nrows > ROWS_PER_PAGE /\ LastRowPage = 1
    /\ located = {1} /\ Present(1) /\ ~Present(0)
\* The 4096 bytes of page p of the file f of length flen: the file's bytes
\* from p * 4096 on, zero where the file has none.
FilePage(f, flen, p) ==
    IF p * PAGE_SIZE < flen THEN [len |-> PAGE_SIZE, nz |-> f[p + 1].nz]
    ELSE Zeroed(PAGE_SIZE)

\* C13: allocate_page on an absent slot p makes it 4096 bytes: all zero for
\* p >= npages = ceil(file_length / 4096), p = npages included, and for
\* p < npages the file's bytes from p * 4096 on, with zero bytes past the end
\* of a short last page.  So it is for every absent slot of every state of a
\* live table, and for the slots a Select materializes.
C13_AllocatePage ==
    /\ [](pc = "open" =>
            \A p \in DOMAIN pages :
                ~Present(p) =>
                    /\ allocate_page(pages, file_length, file, p)[p]
                          = FilePage(file, file_length, p)
                    /\ p >= npages(file_length) =>
                          allocate_page(pages, file_length, file, p)[p] = Zeroed(PAGE_SIZE))
    /\ [][op' = "select" =>
            \A p \in DOMAIN pages :
                (~Present(p) /\ pages'[p].len > 0) =>
                    pages'[p] = FilePage(file, file_length, p)]_vars

\* C13 witness: a Select on a reopened file of 15 rows has loaded page 0
\* whole and the 291 bytes of the short page 1, the rest of it zero, while
\* slot 2 = npages is absent and would be loaded as zero bytes.
C13_Witness ==
    /\ pc = "open" /\ sessions = 2 /\ op = "select"
    /\ file_length = PAGE_SIZE + ROW_SIZE /\ npages(file_length) = 2
    /\ pages[0] = file[1]
    /\ file[2].len = ROW_SIZE /\ pages[1].len = PAGE_SIZE /\ pages[1].nz = file[2].nz
    /\ pages[1].nz # <<>>
    /\ ~Present(2) /\ allocate_page(pages, file_length, file, 2)[2] = Zeroed(PAGE_SIZE)
\* C14: allocate_page on a slot that is present changes nothing: the slot
\* keeps its bytes (for every present slot of every state of a live table),
\* the whole page vector is the same (shown for the page of the last row),
\* and a Select, which calls allocate_page on every page of a row, leaves
\* every present slot and the file as they were, so the rows an Insert wrote
\* into a page are not overwritten by a re-read of the file.
C14_AllocateIdempotent ==
    /\ [](pc = "open" =>
            /\ \A p \in DOMAIN pages :
                   Present(p) => allocate_page(pages, file_length, file, p)[p] = pages[p]
            /\ (nrows > 0 /\ LastRowPage \in DOMAIN pages /\ Present(LastRowPage)) =>
                   allocate_page(pages, file_length, file, LastRowPage) = pages)
    /\ [][(op' = "select" /\ pc' = "open") =>
            /\ file' = file
            /\ \A p \in DOMAIN pages : Present(p) => pages'[p] = pages[p]]_vars

\* C14 witness: a Select has run over a page holding two rows that are not
\* in the file, and the page still differs from what a read of the file gives.
C14_Witness ==
    /\ pc = "open" /\ sessions = 1 /\ op = "select" /\ nrows = 2 /\ Len(output) = 2
    /\ file = <<>> /\ Present(0)
    /\ pages[0] # FilePage(file, file_length, 0)
    /\ allocate_page(pages, file_length, file, 0) = pages
\* The bytes o .. o + n - 1 of a buffer, as a buffer.
BufRange(buf, o, n) ==
    [len |-> n,
     nz  |-> [j \in {i - o : i \in {i \in DOMAIN buf.nz : i >= o /\ i < o + n}} |->
                 buf.nz[j + o]]]

\* C15: a successful Insert at row count n adds 1 to nrows, leaves the file
\* and every page slot but n div 14 as they were, and in page n div 14
\* (4096 bytes after it; before it either present or, if absent, loaded as
\* the file's page) changes only the 291 bytes from (n mod 14) * 291 on, which
\* become the serialized row: every other byte of the page, the rows stored
\* before among them, is as before.
C15_InsertFrame ==
    [][(op' = "insert" /\ result' = "ok") =>
          LET p    == nrows \div ROWS_PER_PAGE
              o    == (nrows % ROWS_PER_PAGE) * ROW_SIZE
              base == IF Present(p) THEN pages[p] ELSE FilePage(file, file_length, p)
          IN  /\ nrows' = nrows + 1
              /\ file' = file
              /\ \A q \in DOMAIN pages \ {p} : pages'[q] = pages[q]
              /\ pages'[p].len = PAGE_SIZE
              /\ BufRange(pages'[p], o, ROW_SIZE) = RowImage(inserted'[Len(inserted')])
              /\ \A i \in 0..(PAGE_SIZE - 1) :
                     (i < o \/ i >= o + ROW_SIZE) => Get(pages'[p], i) = Get(base, i)]_vars

\* C15 witness: a reopened table of three rows has taken a fourth: page 0
\* was loaded, rows 0..2 in it are the file's, row 3 is the new one, the
\* file is as it was.
C15_Witness ==
    /\ pc = "open" /\ sessions = 2 /\ op = "insert" /\ result = "ok"
    /\ OpenedRows = 3 /\ nrows = 4 /\ FileLen(file) = 3 * ROW_SIZE
    /\ BufRange(pages[0], 0, 3 * ROW_SIZE) = BufRange(file[1], 0, 3 * ROW_SIZE)
    /\ BufRange(pages[0], 3 * ROW_SIZE, ROW_SIZE) = RowImage(inserted[Len(inserted)])
    /\ \A q \in DOMAIN pages \ {0} : ~Present(q)
\* The bytes the file f has in [p * 4096, (p + 1) * 4096): at most 4096,
\* fewer at the end of the file, none past it.
FileBlock(f, p) == IF p < Len(f) THEN f[p + 1] ELSE EmptyVec

\* C16 (as claimed): with full = nrows div 14 and rem = nrows mod 14, the
\* drop of the table writes the 4096 bytes of every materialized page
\* p < full, the first rem * 291 bytes of page full when rem > 0 and it is
\* materialized, and nothing else: for every page p that is not materialized
\* the file's bytes in [p * 4096, (p + 1) * 4096) are after the drop what they
\* were at open (the file is not written between open and drop).
C16_DropFrame ==
    [][(op' = "drop" /\ pc' = "closed") =>
          LET full == nrows \div ROWS_PER_PAGE
              rem  == nrows % ROWS_PER_PAGE
          IN  \A p \in DOMAIN pages :
                  /\ (Present(p) /\ p < full) => FileBlock(file', p) = pages[p]
                  /\ (Present(p) /\ p = full /\ rem > 0) =>
                        BufRange(FileBlock(file', p), 0, rem * ROW_SIZE)
                            = BufRange(pages[p], 0, rem * ROW_SIZE)
                  /\ ~Present(p) => FileBlock(file', p) = FileBlock(file, p)]_vars
\* C17: on every live table, the cursor from_end makes and every cursor of a
\* Select (from_start, then advance turn after turn, up to the turn that
\* ends the loop or indexes past the last slot) has end_of_table true if and
\* only if rowno = nrows, and rowno within 0..nrows; the cursor of turn k + 1
\* is advance applied to the cursor of turn k.
C17_CursorInvariant ==
    pc = "open" =>
        /\ Cursor_from_end(nrows).end_of_table <=> Cursor_from_end(nrows).rowno = nrows
        /\ \A k \in 0..Min(nrows, TABLE_MAX_ROWS) :
               /\ CursorAt(k, nrows).end_of_table <=> CursorAt(k, nrows).rowno = nrows
               /\ CursorAt(k, nrows).rowno \in 0..nrows
               /\ k < Min(nrows, TABLE_MAX_ROWS) =>
                     /\ ~CursorAt(k, nrows).end_of_table
                     /\ Cursor_advance(CursorAt(k, nrows), nrows) = CursorAt(k + 1, nrows)

\* C17 witness: a Select over 15 rows has ended: its cursor was not at
\* end_of_table after 14 advances and was after 15.
C17_Witness ==
    /\ pc = "open" /\ op = "select" /\ result = "ok" /\ nrows = 15 /\ Len(output) = 15
    /\ ~CursorAt(14, nrows).end_of_table
    /\ CursorAt(15, nrows) = [rowno |-> 15, end_of_table |-> TRUE]
\* C18: in every state reached from a fresh file, every materialized page
\* has 4096 bytes and its bytes 4074..4095, past the 14th row slot, are zero.
C18_PaddingZero ==
    \A p \in DOMAIN pages :
        Present(p) =>
            /\ pages[p].len = PAGE_SIZE
            /\ \A i \in (ROWS_PER_PAGE * ROW_SIZE)..(PAGE_SIZE - 1) : Get(pages[p], i) = 0

\* C18 witness: a reopened table has loaded a page of 14 rows whose last row
\* fills its slot to byte 4073, and the page's padding is zero.
C18_Witness ==
    /\ pc = "open" /\ sessions = 2 /\ op = "select" /\ Present(0)
    /\ Get(pages[0], ROWS_PER_PAGE * ROW_SIZE - 1) # 0
    /\ \A i \in (ROWS_PER_PAGE * ROW_SIZE)..(PAGE_SIZE - 1) : Get(pages[0], i) = 0

\* C19: every page index used by cursor_value and allocate_page, by the
\* executor's page access and by the flush loop of Drop is below 100: no
\* operation indexes the page slots out of bounds and aborts the process.
C19_IndexSafety ==
    /\ pc # "aborted"
    /\ result # "panic"
\* C20: after n inserts on a fresh path, a drop and a db_open on the same
\* path, the recovered nrows is at least n, and the row a Select reads at
\* each row number r < n (cursor_value, then deserialize_row) is the r-th
\* inserted row as the codec returns it, whatever the recovered nrows is and
\* whether or not the Select ends in a panic past row 1400.
C20_RowsSurviveReopen ==
    (sessions = 2 /\ sinserts = 0) =>
        /\ nrows >= Len(inserted)
        /\ op = "select" =>
               /\ Len(output) >= Len(inserted)
               /\ SubSeq(output, 1, Len(inserted)) = Emitted(inserted)

\* C20 witness: 196 rows fill 14 pages, the file is 57344 bytes and the
\* recovered nrows is 197; a Select of the reopened table reads the 196
\* inserted rows at their row numbers and one empty row after them.
C20_Witness ==
    /\ sessions = 2 /\ sinserts = 0 /\ op = "select" /\ result = "ok"
    /\ Len(inserted) = 14 * ROWS_PER_PAGE /\ nrows = Len(inserted) + 1
    /\ Len(output) = nrows
    /\ SubSeq(output, 1, Len(inserted)) = Emitted(inserted)
    /\ output[nrows].username = <<>>
====
